---- MODULE Spec2Model ----
(***************************************************************************)
(* Model of the Whisper transcription service (src/main.py).               *)
(*                                                                         *)
(* One process: a startup hook that loads the model, then an asyncio event *)
(* loop serving GET / and POST /transcribe.  A handler runs on the loop    *)
(* without interruption except at its single suspension point, the         *)
(* `await file.read()` of line 70; `running` is the request whose          *)
(* coroutine currently owns the loop (0 when the loop is free).            *)
(*                                                                         *)
(* Strings that the code inspects (file names, extensions, transcribed     *)
(* text) are sequences of one-character strings.                           *)
(***************************************************************************)
EXTENDS Integers, Sequences, FiniteSets, TLC

\* ---------------------------------------------------------------- bounds
NReq == 2      \* number of POST /transcribe requests in a behaviour
NRand == 2     \* number of random stems the temp-file name generator has

Reqs == 1..NReq

\* ---------------------------------------------------------------- values
\* Python's None, kept distinct from every character sequence.
None == <<"None">>

\* The handle whisper.load_model("tiny") returns (line 25).
TinyModel == <<"whisper-tiny">>

\* allowed_types (line 52)
allowed_types ==
    { <<".", "m", "p", "3">>, <<".", "w", "a", "v">>, <<".", "m", "4", "a">> }

\* Filenames a client may submit; None is an upload without a filename.
Filenames ==
    { <<"A", ".", "M", "P", "3">>,
      <<"d", "/", "b", ".", "a", ".", "W", "a", "v">>,
      <<"a", ".", "t", "x", "t">>,
      <<"a", ".", "m", "p", "3", "/", "b">>,
      <<".", "m", "4", "a">>,
      <<"w", "a", "v">>,
      None }

\* Upload byte contents, named by what the audio holds.
Contents == { "hello", "notext", "null", "corrupt" }

\* ------------------------------------------------------------ str helpers
RECURSIVE LowerSeq(_)
LowerChar(c) ==
    CASE c = "A" -> "a" [] c = "M" -> "m" [] c = "P" -> "p"
      [] c = "W" -> "w" [] c = "V" -> "v" [] OTHER -> c

\* Variant: the extension is compared as submitted, without .lower().
LowerSeqSkipped(s) == s

\* str.lower()
LowerSeq(s) ==
    IF s = <<>> THEN <<>> ELSE <<LowerChar(Head(s))>> \o LowerSeq(Tail(s))

\* str.rfind(c): the last 1-based position of c in s, 0 when absent
RECURSIVE RFind(_, _)
RFind(s, c) ==
    IF s = <<>> THEN 0
    ELSE IF s[Len(s)] = c THEN Len(s)
    ELSE RFind(SubSeq(s, 1, Len(s) - 1), c)

\* PurePosixPath(s).name: the last component that is neither empty nor "."
RECURSIVE PathName(_)
PathName(s) ==
    LET i == RFind(s, "/")
        last == SubSeq(s, i + 1, Len(s))
    IN  IF s = <<>> THEN <<>>
        ELSE IF last = <<>> \/ last = <<".">>
             THEN PathName(SubSeq(s, 1, IF i = 0 THEN 0 ELSE i - 1))
        ELSE last

\* PurePath.suffix: name[i:] when the last dot is neither first nor last
Suffix(s) ==
    LET name == PathName(s)
        i == RFind(name, ".")
    IN  IF 1 < i /\ i < Len(name) THEN SubSeq(name, i, Len(name)) ELSE <<>>

IsSpace(c) == c \in { " ", "\n", "\t" }

RECURSIVE LStrip(_)
LStrip(s) ==
    IF s # <<>> /\ IsSpace(Head(s)) THEN LStrip(Tail(s)) ELSE s

RECURSIVE RStrip(_)
RStrip(s) ==
    IF s # <<>> /\ IsSpace(s[Len(s)])
    THEN RStrip(SubSeq(s, 1, Len(s) - 1)) ELSE s

\* str.strip()
Strip(s) == RStrip(LStrip(s))

\* dict.get(k, default)
DictGet(d, k, default) == IF k \in DOMAIN d THEN d[k] ELSE default

\* ------------------------------------------------------------ exceptions
Exc(type, msg) == [type |-> type, msg |-> msg]
NoExc == Exc("", "")

\* str(e)
Str(e) == e.msg

\* ------------------------------------------------------------ responses
NoDetail == [prefix |-> "", ext |-> <<>>, msg |-> "", allowed |-> {}]

\* What leaves the handler: a returned JSONResponse, a raised HTTPException,
\* or any other exception type, which the handler did not map.
NoResp == [via |-> "", status |-> 0, text |-> None, detail |-> NoDetail]

\* JSONResponse(status_code=200, content={"text": transcribed_text})
JSONResponse200(text) ==
    [via |-> "JSONResponse", status |-> 200, text |-> text, detail |-> NoDetail]

\* HTTPException(400, f"Unsupported file type: {file_ext}. Supported types: ...")
HTTPException400(file_ext) ==
    [via |-> "HTTPException", status |-> 400, text |-> None,
     detail |-> [prefix |-> "Unsupported file type: ", ext |-> file_ext,
                 msg |-> "", allowed |-> allowed_types]]

\* Variant: the 500 carries a fixed detail instead of str(e).
HTTPException500Generic(e) ==
    [via |-> "HTTPException", status |-> 500, text |-> None,
     detail |-> [prefix |-> "Transcription failed: ", ext |-> <<>>,
                 msg |-> "internal error", allowed |-> {}]]

\* HTTPException(500, f"Transcription failed: {str(e)}")
HTTPException500(e) ==
    [via |-> "HTTPException", status |-> 500, text |-> None,
     detail |-> [prefix |-> "Transcription failed: ", ext |-> <<>>,
                 msg |-> Str(e), allowed |-> {}]]

\* An exception the handler neither caught nor raised as an HTTPException.
Unhandled(e) ==
    [via |-> e.type, status |-> 0, text |-> None, detail |-> NoDetail]

\* ------------------------------------------------------------ filesystem
\* A temp-file path: the random stem followed by the requested suffix.
TempPath(n, suffix) == <<"tmp", ToString(n)>> \o suffix

\* Every suffix a submitted filename can yield, and every temp path with one.
Suffixes == { LowerSeq(Suffix(fn)) : fn \in Filenames \ {None} }
AllPaths == { TempPath(n, x) : n \in 1..NRand, x \in Suffixes \cup allowed_types }

NoFile == [owner |-> 0, data |-> "absent"]
File(r, data) == [owner |-> r, data |-> data]

\* ------------------------------------------------------------ Transcriber
\* The external model, a deterministic function of the audio file it is
\* given: model.transcribe(path) either raises or returns a dict.
TranscribeRaises(file) == file = NoFile \/ file.data \in { "corrupt", "empty" }

TranscribeError(file) ==
    IF file = NoFile THEN Exc("RuntimeError", "Failed to load audio: no such file")
    ELSE Exc("RuntimeError", "Failed to load audio: invalid data")

TranscribeResult(file) ==
    CASE file.data = "hello"  -> [k \in {"text"} |-> <<" ", "h", "i", " ", "u", "\n">>]
      [] file.data = "null"   -> [k \in {"text"} |-> None]
      [] OTHER                -> [k \in {"language"} |-> <<"e", "n">>]

NoResult == [k \in {"unset"} |-> <<>>]

\* The body of GET / (lines 35-39), and the absence of any answer so far.
HealthBody == [status |-> "healthy", model |-> "tiny"]
NoHealth == [status |-> "", model |-> ""]

\* ------------------------------------------------------------------ state
VARIABLES
    phase,      \* "starting", "serving" or "aborted": the startup hook's outcome
    model,      \* the module-level `model` (line 17)
    health,     \* the body GET / last returned, NoHealth before the first call
    running,    \* the request whose coroutine owns the event loop, or 0
    req,        \* per request: the handler's locals and its position
    disk        \* the temp directory: path -> file

vars == <<phase, model, health, running, req, disk>>

NewReq ==
    [pc |-> "idle", filename |-> None, file_ext |-> <<>>, temp_file |-> None,
     contents |-> "unread", result |-> NoResult, e |-> NoExc,
     pending |-> NoResp, resp |-> NoResp,
     \* history: artifacts created, whether the upload was written and the
     \* handle closed, Transcriber calls and what the last one raised,
     \* os.unlink calls, and whether the cleanup warning was logged
     created |-> 0, persisted |-> FALSE, calls |-> 0, raised |-> NoExc,
     unlinks |-> 0, warned |-> FALSE]

Init ==
    /\ phase = "starting"
    /\ model = None
    /\ health = NoHealth
    /\ running = 0
    /\ req = [r \in Reqs |-> NewReq]
    /\ disk = [p \in AllPaths |-> NoFile]

\* ---------------------------------------------------------------- startup
\* Variant: without `global model` the handle lands in a local.
LoadModelOkLocal ==
    /\ phase = "starting"
    /\ phase' = "serving"
    /\ UNCHANGED <<model, health, running, req, disk>>

\* load_model, lines 23-26: the load succeeds and the server starts serving.
LoadModelOk ==
    /\ phase = "starting"
    /\ model' = TinyModel
    /\ phase' = "serving"
    /\ UNCHANGED <<health, running, req, disk>>

\* Variant: the hook logs the failure and does not re-raise.
LoadModelFailSwallowed ==
    /\ phase = "starting"
    /\ phase' = "serving"
    /\ UNCHANGED <<model, health, running, req, disk>>

\* load_model, lines 27-29: the load raises; the hook logs and re-raises, so
\* the startup event fails and the server never starts serving.
LoadModelFail ==
    /\ phase = "starting"
    /\ phase' = "aborted"
    /\ UNCHANGED <<model, health, running, req, disk>>

\* ----------------------------------------------------------------- GET /
\* health_check, lines 32-39: answers without consulting `model`.
HealthCheck ==
    /\ phase = "serving"
    /\ running = 0
    /\ health' = HealthBody
    /\ UNCHANGED <<phase, model, running, req, disk>>

\* ------------------------------------------------------- POST /transcribe
Set(r, f) == req' = [req EXCEPT ![r] = f]

\* The handler's frame is gone once it has returned or raised: its locals are
\* dropped, and what stays is the response and the record of what happened
\* (the upload submitted, the Transcriber's result, the exception caught,
\* artifacts created, Transcriber calls, unlinks).
Exit(f, resp) ==
    [f EXCEPT !.pc = "done", !.resp = resp, !.pending = NoResp,
              !.file_ext = <<>>, !.temp_file = None]

\* Variant: the membership test is missing.
AcceptsAny(file_ext) == file_ext = file_ext

\* Line 55: the membership test of the validator.
Accepts(file_ext) == file_ext \in allowed_types

\* Lines 51-59 for a request arriving with filename fn: derive the extension
\* and validate it.  Path(None) raises TypeError outside the try block.
Validate(r, fn) ==
    /\ phase = "serving"
    /\ running = 0
    /\ req[r].pc = "idle"
    /\ IF fn = None
       THEN /\ Set(r, Exit([req[r] EXCEPT !.filename = fn],
                            Unhandled(Exc("TypeError", "expected str"))))
            /\ UNCHANGED running
       ELSE LET file_ext == LowerSeq(Suffix(fn))
            IN  IF ~Accepts(file_ext)
                THEN /\ Set(r, Exit([req[r] EXCEPT !.filename = fn],
                                     HTTPException400(file_ext)))
                     /\ UNCHANGED running
                ELSE /\ Set(r, [req[r] EXCEPT !.pc = "create", !.filename = fn,
                                   !.file_ext = file_ext])
                     /\ running' = r
    /\ UNCHANGED <<phase, model, health, disk>>

\* Variant: a fixed name, opened without exclusive creation.
FreePathsFixed(suffix) == { TempPath(1, suffix) }

\* The names mkstemp may return: those not yet present in the directory.
FreePaths(suffix) ==
    { p \in { TempPath(n, suffix) : n \in 1..NRand } : disk[p] = NoFile }

CreateError == Exc("OSError", "cannot create temporary file")
ReadError == Exc("OSError", "upload read failed")
WriteError == Exc("OSError", "no space left on device")

\* Lines 61-70, success: NamedTemporaryFile creates a fresh empty file,
\* temp_file takes its name, and the coroutine suspends in `await file.read()`.
CreateTemp(r) ==
    /\ running = r
    /\ req[r].pc = "create"
    /\ \E p \in FreePaths(req[r].file_ext) :
          /\ disk' = [disk EXCEPT ![p] = File(r, "empty")]
          /\ Set(r, [req[r] EXCEPT !.pc = "read", !.temp_file = p,
                        !.created = @ + 1])
    /\ running' = 0
    /\ UNCHANGED <<phase, model, health>>

\* Lines 64-67, failure: no file is created and temp_file stays None.
CreateTempFail(r) ==
    /\ running = r
    /\ req[r].pc = "create"
    /\ Set(r, [req[r] EXCEPT !.pc = "except",
                  !.e = CreateError])
    /\ UNCHANGED <<phase, model, health, running, disk>>

\* Line 70: the awaited read completes with the upload's bytes; the
\* coroutine is resumed and owns the loop again.
ReadUpload(r, c) ==
    /\ running = 0
    /\ req[r].pc = "read"
    /\ Set(r, [req[r] EXCEPT !.pc = "write", !.contents = c])
    /\ running' = r
    /\ UNCHANGED <<phase, model, health, disk>>

\* Line 70: the awaited read raises; the with block closes the file.
ReadUploadFail(r) ==
    /\ running = 0
    /\ req[r].pc = "read"
    /\ Set(r, [req[r] EXCEPT !.pc = "except",
                  !.e = ReadError])
    /\ running' = r
    /\ UNCHANGED <<phase, model, health, disk>>

\* Variant: after the write the transcription is awaited in a worker thread,
\* which frees the loop for other requests.
WriteTempThenOffload(r) ==
    /\ running = r
    /\ req[r].pc = "write"
    /\ disk' = [disk EXCEPT ![req[r].temp_file] = File(r, req[r].contents)]
    /\ Set(r, [req[r] EXCEPT !.pc = "transcribe", !.persisted = TRUE])
    /\ running' = 0
    /\ UNCHANGED <<phase, model, health>>

\* Variant: the file is opened with the default delete=True, so closing it
\* at the end of the with block removes it.
WriteTempDeleteOnClose(r) ==
    /\ running = r
    /\ req[r].pc = "write"
    /\ disk' = [disk EXCEPT ![req[r].temp_file] = NoFile]
    /\ Set(r, [req[r] EXCEPT !.pc = "transcribe", !.persisted = TRUE,
                  !.unlinks = @ + 1])
    /\ UNCHANGED <<phase, model, health, running>>

\* Lines 71-73: the whole buffer is written through the open handle and the
\* with block closes it.  The handle still refers to the file the request
\* created; a path since unlinked by someone else receives nothing.
WriteTemp(r) ==
    /\ running = r
    /\ req[r].pc = "write"
    /\ LET p == req[r].temp_file
       IN  disk' = IF disk[p].owner = r
                   THEN [disk EXCEPT ![p] = File(r, req[r].contents)]
                   ELSE disk
    /\ Set(r, [req[r] EXCEPT !.pc = "transcribe", !.persisted = TRUE])
    /\ UNCHANGED <<phase, model, health, running>>

\* Variant: the write error is logged and the handler carries on.
WriteTempFailIgnored(r) ==
    /\ running = r
    /\ req[r].pc = "write"
    /\ Set(r, [req[r] EXCEPT !.pc = "transcribe", !.e = WriteError])
    /\ UNCHANGED <<phase, model, health, running, disk>>

\* Line 71: the write raises (for instance a full disk); the file stays as
\* created.
WriteTempFail(r) ==
    /\ running = r
    /\ req[r].pc = "write"
    /\ Set(r, [req[r] EXCEPT !.pc = "except",
                  !.e = WriteError])
    /\ UNCHANGED <<phase, model, health, running, disk>>

\* Line 76: result = model.transcribe(temp_file, language="en")
Transcribe(r) ==
    /\ running = r
    /\ req[r].pc = "transcribe"
    /\ LET file == disk[req[r].temp_file]
       IN  IF model = None
           THEN Set(r, [req[r] EXCEPT !.pc = "except",
                   !.e = Exc("AttributeError",
                             "'NoneType' object has no attribute 'transcribe'")])
           ELSE IF TranscribeRaises(file)
           THEN Set(r, [req[r] EXCEPT !.pc = "except", !.calls = @ + 1,
                           !.e = TranscribeError(file),
                           !.raised = TranscribeError(file)])
           ELSE Set(r, [req[r] EXCEPT !.pc = "strip", !.calls = @ + 1,
                           !.result = TranscribeResult(file)])
    /\ UNCHANGED <<phase, model, health, running, disk>>

\* Lines 77-84: transcribed_text = result.get("text", "").strip(), then the
\* 200 response is built and returned (through the finally block).
StripText(r) ==
    /\ running = r
    /\ req[r].pc = "strip"
    /\ LET text == DictGet(req[r].result, "text", <<>>)
       IN  IF text = None
           THEN Set(r, [req[r] EXCEPT !.pc = "except",
                   !.e = Exc("AttributeError",
                             "'NoneType' object has no attribute 'strip'")])
           ELSE Set(r, [req[r] EXCEPT !.pc = "finally",
                           !.pending = JSONResponse200(Strip(text))])
    /\ UNCHANGED <<phase, model, health, running, disk>>

\* Variant: a failed transcription is tried once more before giving up.
ExceptRetry(r) ==
    /\ running = r
    /\ req[r].pc = "except"
    /\ IF req[r].raised # NoExc /\ req[r].calls < 2
       THEN Set(r, [req[r] EXCEPT !.pc = "transcribe"])
       ELSE Set(r, [req[r] EXCEPT !.pc = "finally",
                       !.pending = HTTPException500(req[r].e)])
    /\ UNCHANGED <<phase, model, health, running, disk>>

\* Variant: a failed write is attempted again, as often as it fails.
ExceptRetriesWrite(r) ==
    /\ running = r
    /\ req[r].pc = "except"
    /\ IF req[r].e = WriteError
       THEN Set(r, [req[r] EXCEPT !.pc = "write", !.e = NoExc])
       ELSE Set(r, [req[r] EXCEPT !.pc = "finally",
                       !.pending = HTTPException500(req[r].e)])
    /\ UNCHANGED <<phase, model, health, running, disk>>

\* Variant: on an error the handler drops the model handle to force a reload.
ExceptDropsModel(r) ==
    /\ running = r
    /\ req[r].pc = "except"
    /\ Set(r, [req[r] EXCEPT !.pc = "finally",
                  !.pending = HTTPException500(req[r].e)])
    /\ model' = None
    /\ UNCHANGED <<phase, health, running, disk>>

\* Lines 86-91: any Exception of the try block becomes HTTPException(500).
Except(r) ==
    /\ running = r
    /\ req[r].pc = "except"
    /\ Set(r, [req[r] EXCEPT !.pc = "finally",
                  !.pending = HTTPException500(req[r].e)])
    /\ UNCHANGED <<phase, model, health, running, disk>>

\* Variant: no cleanup at all.
FinallySkipUnlink(r) ==
    /\ running = r
    /\ req[r].pc = "finally"
    /\ Set(r, Exit(req[r], req[r].pending))
    /\ running' = 0
    /\ UNCHANGED <<phase, model, health, disk>>

\* Variant: the cleanup sits in the except block, so only failures clean up.
FinallyOnlyOnError(r) ==
    /\ running = r
    /\ req[r].pc = "finally"
    /\ LET p == req[r].temp_file
       IN  IF p # None /\ disk[p] # NoFile /\ req[r].pending.status = 500
           THEN /\ disk' = [disk EXCEPT ![p] = NoFile]
                /\ Set(r, Exit([req[r] EXCEPT !.unlinks = @ + 1],
                                req[r].pending))
           ELSE /\ disk' = disk
                /\ Set(r, Exit(req[r], req[r].pending))
    /\ running' = 0
    /\ UNCHANGED <<phase, model, health>>

\* Lines 93-98: nothing to clean up, or os.unlink succeeds; then the pending
\* response or exception leaves the handler.
Finally(r) ==
    /\ running = r
    /\ req[r].pc = "finally"
    /\ LET p == req[r].temp_file
       IN  IF p # None /\ disk[p] # NoFile
           THEN /\ disk' = [disk EXCEPT ![p] = NoFile]
                /\ Set(r, Exit([req[r] EXCEPT !.unlinks = @ + 1],
                                req[r].pending))
           ELSE /\ disk' = disk
                /\ Set(r, Exit(req[r], req[r].pending))
    /\ running' = 0
    /\ UNCHANGED <<phase, model, health>>

\* Variant: os.unlink is not guarded, so its exception replaces the response.
FinallyUnlinkFailPropagates(r) ==
    /\ running = r
    /\ req[r].pc = "finally"
    /\ req[r].temp_file # None
    /\ disk[req[r].temp_file] # NoFile
    /\ Set(r, Exit([req[r] EXCEPT !.unlinks = @ + 1],
                    Unhandled(Exc("PermissionError", "unlink failed"))))
    /\ running' = 0
    /\ UNCHANGED <<phase, model, health, disk>>

\* Lines 95-100: os.unlink raises; the failure is logged as a warning and
\* swallowed, and the pending response or exception leaves the handler.
FinallyUnlinkFail(r) ==
    /\ running = r
    /\ req[r].pc = "finally"
    /\ req[r].temp_file # None
    /\ disk[req[r].temp_file] # NoFile
    /\ Set(r, Exit([req[r] EXCEPT !.unlinks = @ + 1, !.warned = TRUE],
                    req[r].pending))
    /\ running' = 0
    /\ UNCHANGED <<phase, model, health, disk>>

Next ==
    \/ LoadModelOk
    \/ LoadModelFail
    \/ HealthCheck
    \/ \E r \in Reqs :
          \/ \E fn \in Filenames : Validate(r, fn)
          \/ CreateTemp(r)
          \/ CreateTempFail(r)
          \/ \E c \in Contents : ReadUpload(r, c)
          \/ ReadUploadFail(r)
          \/ WriteTemp(r)
          \/ WriteTempFail(r)
          \/ Transcribe(r)
          \/ StripText(r)
          \/ Except(r)
          \/ Finally(r)
          \/ FinallyUnlinkFail(r)

Spec == Init /\ [][Next]_vars

\* For progress only the branch an input selects matters: a filename is
\* absent, refused or accepted, and the uploaded audio makes the Transcriber
\* return a text, return a null text, or raise.  One input of each kind:
LiveFilenames ==
    { <<"A", ".", "M", "P", "3">>, <<"a", ".", "t", "x", "t">>, None }

LiveContents == { "hello", "null", "corrupt" }

\* The steps of request r's handler once the request has been received.
HandlerStep(r) ==
    \/ CreateTemp(r)
    \/ CreateTempFail(r)
    \/ \E c \in LiveContents : ReadUpload(r, c)
    \/ ReadUploadFail(r)
    \/ WriteTemp(r)
    \/ WriteTempFail(r)
    \/ Transcribe(r)
    \/ StripText(r)
    \/ Except(r)
    \/ Finally(r)
    \/ FinallyUnlinkFail(r)

LiveNext ==
    \/ LoadModelOk
    \/ LoadModelFail
    \/ HealthCheck
    \/ \E r \in Reqs :
          \/ \E fn \in LiveFilenames : Validate(r, fn)
          \/ HandlerStep(r)

\* The event loop runs every coroutine that is ready, and every upload read
\* and every Transcriber call eventually returns or fails.
FairSpec ==
    Init /\ [][LiveNext]_vars /\ \A r \in Reqs : WF_vars(HandlerStep(r))

\* The status the client receives: the framework answers an exception that
\* leaves the handler unmapped with 500 Internal Server Error.
ClientStatus(resp) ==
    IF resp.via \in { "JSONResponse", "HTTPException" } THEN resp.status ELSE 500

\* ================================================================ claims
Done(r) == req[r].pc = "done"

\* The temp artifacts on disk that request r created.
Owned(r) == { p \in AllPaths : disk[p].owner = r }

\* r arrived with a filename whose lower-cased extension is in the allow-list.
Accepted(r) ==
    /\ req[r].pc # "idle"
    /\ req[r].filename # None
    /\ LowerSeq(Suffix(req[r].filename)) \in allowed_types

\* r arrived with a filename whose lower-cased extension is outside it.
Rejected(r) ==
    /\ req[r].pc # "idle"
    /\ req[r].filename # None
    /\ LowerSeq(Suffix(req[r].filename)) \notin allowed_types

\* The text a Transcriber output stands for: stripped, empty when absent or null.
TextOf(result) ==
    LET t == DictGet(result, "text", None)
    IN  IF t = None THEN <<>> ELSE Strip(t)

\* C1: a request whose filename has a lower-cased extension outside the
\* allow-list is answered 400 naming the extension and the allow-list, and
\* at no point of its handling is the Transcriber invoked or a temp artifact
\* created.
C1_UnsupportedIs400 ==
    \A r \in Reqs :
        Rejected(r) =>
            /\ Done(r)
            /\ req[r].resp.via = "HTTPException"
            /\ req[r].resp.status = 400
            /\ req[r].resp.detail.ext = LowerSeq(Suffix(req[r].filename))
            /\ req[r].resp.detail.allowed = allowed_types
            /\ req[r].calls = 0
            /\ req[r].created = 0
            /\ Owned(r) = {}

C1_Witness ==
    \E r \in Reqs : Rejected(r) /\ Done(r) /\ req[r].resp.status = 400

\* C2 as stated: every accepted upload creates exactly one temp artifact and,
\* once the request has completed, none of its artifacts is left on disk.
C2_Original ==
    \A r \in Reqs :
        Accepted(r) =>
            /\ req[r].created <= 1
            /\ Done(r) => (req[r].created = 1 /\ Owned(r) = {})

\* C2 amended: an accepted upload creates at most one temp artifact, exactly
\* one unless creating the file itself fails (then none, and the answer is
\* 500); once the request has completed none of its artifacts is left on disk
\* unless the deletion attempt failed, which is logged as a warning.
C2_ArtifactLifetime ==
    \A r \in Reqs :
        Accepted(r) =>
            /\ req[r].created <= 1
            /\ Cardinality(Owned(r)) <= req[r].created
            /\ Done(r) =>
                 /\ req[r].created = 1
                      \/ (req[r].e = CreateError /\ req[r].resp.status = 500)
                 /\ Owned(r) = {} \/ req[r].warned
                 /\ req[r].created = 1 => req[r].unlinks = 1

C2_Witness ==
    \E r \in Reqs :
        /\ Accepted(r) /\ Done(r)
        /\ req[r].created = 1 /\ req[r].unlinks = 1
        /\ ~req[r].warned /\ Owned(r) = {}

\* C3 as stated: when the Transcriber call fails the response is 500 with the
\* failure text in its detail, and the request's artifact is gone when the
\* request completes.
C3_Original ==
    \A r \in Reqs :
        (Done(r) /\ req[r].raised # NoExc) =>
            /\ req[r].resp.status = 500
            /\ req[r].resp.detail.msg = Str(req[r].raised)
            /\ Owned(r) = {}

\* C3 amended: when the Transcriber call fails the response is 500 with the
\* failure text in its detail, and the deletion of the request's artifact is
\* attempted before the request completes; the artifact is gone unless that
\* deletion failed.
C3_TranscriberFailureIs500 ==
    \A r \in Reqs :
        (Done(r) /\ req[r].raised # NoExc) =>
            /\ req[r].resp.via = "HTTPException"
            /\ req[r].resp.status = 500
            /\ req[r].resp.detail.prefix = "Transcription failed: "
            /\ req[r].resp.detail.msg = Str(req[r].raised)
            /\ req[r].unlinks = 1
            /\ Owned(r) = {} \/ req[r].warned

C3_Witness ==
    \E r \in Reqs :
        /\ Done(r) /\ req[r].raised # NoExc
        /\ req[r].resp.status = 500 /\ Owned(r) = {}

\* C4: under any interleaving, two in-flight requests never hold the same
\* temp path, a request holds at most one artifact, the artifact handed to
\* the Transcriber holds the request's own bytes, and the text a request
\* returns is the Transcriber's result for those bytes.
C4_DistinctArtifactsPairedResults ==
    /\ \A r1, r2 \in Reqs :
          (r1 # r2 /\ req[r1].temp_file # None /\ req[r2].temp_file # None)
              => req[r1].temp_file # req[r2].temp_file
    /\ \A r \in Reqs :
          /\ Cardinality(Owned(r)) <= 1
          /\ req[r].temp_file # None => Owned(r) = { req[r].temp_file }
          /\ req[r].pc = "transcribe" =>
                disk[req[r].temp_file] = File(r, req[r].contents)
          /\ req[r].result # NoResult =>
                req[r].result = TranscribeResult(File(r, req[r].contents))
          /\ req[r].resp.status = 200 =>
                req[r].resp.text = TextOf(TranscribeResult(File(r, req[r].contents)))

C4_Witness ==
    \E r1, r2 \in Reqs :
        /\ r1 # r2
        /\ req[r1].pc = "strip" /\ req[r2].pc = "read"
        /\ req[r1].file_ext = req[r2].file_ext

\* C5: GET / has answered healthy only in a serving process whose model was
\* loaded; after a failed load no state has a healthy answer.
C5_HealthyOnlyAfterLoad ==
    /\ health.status = "healthy" => (phase = "serving" /\ model = TinyModel)
    /\ phase = "aborted" => (health = NoHealth /\ model = None)

C5_Witness == health = HealthBody /\ model = TinyModel

\* C6: a POST /transcribe is handled, and the Transcriber invoked, only in a
\* serving process whose model handle is loaded.
C6_NoTrafficWithoutModel ==
    \A r \in Reqs :
        req[r].pc # "idle" => (phase = "serving" /\ model = TinyModel)

C6_Witness ==
    \E r \in Reqs : req[r].calls = 1 /\ req[r].resp.status = 200

\* C7: whenever the Transcriber returned an output, the response is 200 and
\* its text is the output's text stripped, the empty string when the text is
\* absent or null.
C7_Claim ==
    \A r \in Reqs :
        (Done(r) /\ req[r].result # NoResult) =>
            req[r].resp = JSONResponse200(TextOf(req[r].result))

\* os.unlink was called for r's artifact and the artifact is still there.
DeletionFailed(r) == req[r].unlinks = 1 /\ Owned(r) # {}

\* C8: a failed deletion leaves the response what it is after a successful
\* one: 500 carrying the caught exception's text when the try block failed,
\* 200 with the stripped text otherwise; the deletion failure is not in it.
C8_CleanupFailureNotSurfaced ==
    \A r \in Reqs :
        (Done(r) /\ DeletionFailed(r)) =>
            /\ req[r].warned
            /\ req[r].raised # NoExc => req[r].resp.status = 500
            /\ req[r].resp = IF req[r].e # NoExc
                             THEN HTTPException500(req[r].e)
                             ELSE JSONResponse200(TextOf(req[r].result))

C8_Witness ==
    \E r1, r2 \in Reqs :
        /\ Done(r1) /\ DeletionFailed(r1) /\ req[r1].resp.status = 200
        /\ Done(r2) /\ DeletionFailed(r2) /\ req[r2].resp.status = 500

\* C9: whatever fails while a request is handled, what leaves the handler is
\* a 200 response or an HTTPException with status 400 or 500.
C9_Claim ==
    \A r \in Reqs :
        Done(r) =>
            \/ req[r].resp.via = "JSONResponse" /\ req[r].resp.status = 200
            \/ req[r].resp.via = "HTTPException"
                 /\ req[r].resp.status \in {400, 500}

\* Two completed requests that submitted the same valid upload, for which
\* the Transcriber returns a text.
SameUpload(r1, r2) ==
    /\ r1 # r2
    /\ Done(r1) /\ Done(r2)
    /\ Accepted(r1)
    /\ req[r1].filename = req[r2].filename
    /\ req[r1].contents # "unread"
    /\ req[r1].contents = req[r2].contents
    /\ ~TranscribeRaises(File(r1, req[r1].contents))
    /\ DictGet(TranscribeResult(File(r1, req[r1].contents)), "text", <<>>) # None

InBlockingStep(r) ==
    \/ req[r].pc = "read" /\ running = 0
    \/ req[r].pc \in { "write", "transcribe" } /\ running = r

\* C11: while a request is in a blocking step (upload read, temp-file write,
\* transcription call), a health check can be answered, another request can
\* be received, and another request's pending upload read can complete.
C11_Claim ==
    \A r \in Reqs :
        InBlockingStep(r) =>
            /\ ENABLED HealthCheck
            /\ \A r2 \in Reqs \ {r} :
                  /\ req[r2].pc = "idle" =>
                        ENABLED (\E fn \in Filenames : Validate(r2, fn))
                  /\ req[r2].pc = "read" =>
                        ENABLED (ReadUploadFail(r2)
                                   \/ \E c \in Contents : ReadUpload(r2, c))

\* C12: a request that acquired its artifact leaves the handler only with a
\* release attempted; the release is attempted in the finally block, once the
\* outcome (result or error) is fixed, and no transcription call follows it.
C12_ReleaseOnEveryExit ==
    /\ [](\A r \in Reqs : (Done(r) /\ req[r].created = 1) => req[r].unlinks = 1)
    /\ [][\A r \in Reqs :
            /\ req'[r].unlinks # req[r].unlinks =>
                  /\ req[r].pc = "finally"
                  /\ req[r].pending.status \in {200, 500}
                  /\ req'[r].resp = req[r].pending
            /\ req[r].unlinks > 0 =>
                  (req'[r].calls = req[r].calls /\ req'[r].unlinks = req[r].unlinks)
         ]_vars

C12_Witness ==
    \E r1, r2 \in Reqs :
        /\ Done(r1) /\ req[r1].unlinks = 1 /\ req[r1].e = ReadError
        /\ Done(r2) /\ req[r2].unlinks = 1 /\ req[r2].raised # NoExc

\* C13: the Transcriber is invoked at most once per request, exactly once
\* for a request whose upload was persisted, and not at all for a request
\* that was rejected or whose persistence failed.
C13_OneTranscriberCall ==
    \A r \in Reqs :
        /\ req[r].calls <= 1
        /\ req[r].persisted =>
              req[r].calls = IF req[r].pc = "transcribe" THEN 0 ELSE 1
        /\ ~req[r].persisted => req[r].calls = 0
        /\ req[r].raised # NoExc => req[r].pc \in { "except", "finally", "done" }

C13_Witness ==
    \E r1, r2 \in Reqs :
        /\ Done(r1) /\ req[r1].persisted /\ req[r1].raised # NoExc
        /\ req[r1].calls = 1
        /\ Done(r2) /\ req[r2].e = WriteError /\ req[r2].calls = 0

\* C14: the Transcriber is invoked only for a request that passed validation
\* and whose whole upload was written to its own artifact, named with the
\* validated extension, and closed; a request that ends in an error ends
\* either with 400 straight from reception or with 500 after validation.
C14_Claim ==
    \A r \in Reqs :
        /\ (req[r].pc = "transcribe" \/ req[r].calls > 0) =>
              (Accepted(r) /\ req[r].persisted)
        /\ req[r].pc = "transcribe" =>
              /\ disk[req[r].temp_file] = File(r, req[r].contents)
              /\ SubSeq(req[r].temp_file, 3, Len(req[r].temp_file))
                    = LowerSeq(Suffix(req[r].filename))
        /\ req[r].persisted => req[r].created = 1
        /\ req[r].created = 1 => Accepted(r)
        /\ (Done(r) /\ req[r].resp.status # 200) =>
              \/ req[r].resp.status = 400 /\ req[r].created = 0
                   /\ req[r].contents = "unread"
              \/ req[r].resp.status = 500 /\ Accepted(r)

\* Reading the upload or writing the temp artifact failed for r.
IOFailed(r) == req[r].e \in { ReadError, WriteError }

\* C15 as stated: after a failed read or write the handler goes straight to
\* its error exit, the Transcriber is not invoked, and the response is 500
\* with a generic detail, one that does not carry the failure's text.
C15_Original ==
    \A r \in Reqs :
        IOFailed(r) =>
            /\ req[r].pc \in { "except", "finally", "done" }
            /\ req[r].calls = 0
            /\ Done(r) =>
                  /\ req[r].resp.status = 500
                  /\ req[r].resp.detail.msg # Str(req[r].e)

\* C15 amended: after a failed read or write the handler goes straight to
\* its error exit, the Transcriber is not invoked, and the response is 500
\* with the detail "Transcription failed: " followed by the failure's text.
C15_IOFailureIs500 ==
    \A r \in Reqs :
        IOFailed(r) =>
            /\ req[r].pc \in { "except", "finally", "done" }
            /\ req[r].calls = 0
            /\ ~req[r].persisted
            /\ Done(r) =>
                  /\ req[r].resp.via = "HTTPException"
                  /\ req[r].resp.status = 500
                  /\ req[r].resp.detail.prefix = "Transcription failed: "
                  /\ req[r].resp.detail.msg = Str(req[r].e)

C15_Witness ==
    \E r1, r2 \in Reqs :
        /\ Done(r1) /\ req[r1].e = ReadError
        /\ req[r1].resp.detail.msg = Str(ReadError)
        /\ Done(r2) /\ req[r2].e = WriteError
        /\ req[r2].resp.detail.msg = Str(WriteError)

\* r was turned away by the validator.
Refused(r) == Done(r) /\ req[r].resp.status = 400

\* C16: a request with a filename is accepted exactly when the filename's
\* final extension, lower-cased, is in the allow-list; upper- and mixed-case
\* spellings of an allowed extension are accepted and a name without
\* extension is refused; the validation step changes neither the disk nor the
\* model handle nor any other request, and makes no Transcriber call.
C16_ValidatorAcceptsIff ==
    /\ [](\A r \in Reqs :
            (req[r].pc # "idle" /\ req[r].filename # None) =>
               /\ ~Refused(r) <=>
                     LowerSeq(Suffix(req[r].filename)) \in allowed_types
               /\ req[r].filename \in { <<"A", ".", "M", "P", "3">>,
                      <<"d", "/", "b", ".", "a", ".", "W", "a", "v">> }
                     => ~Refused(r)
               /\ req[r].filename = <<"w", "a", "v">> =>
                     (Refused(r) /\ req[r].resp.detail.ext = <<>>))
    /\ [][\A r \in Reqs :
            (req[r].pc = "idle" /\ req'[r].pc # "idle") =>
               /\ disk' = disk
               /\ model' = model
               /\ req'[r].calls = 0 /\ req'[r].created = 0
               /\ \A r2 \in Reqs \ {r} : req'[r2] = req[r2]
         ]_vars

C16_Witness ==
    \E r1, r2 \in Reqs :
        /\ req[r1].filename = <<"A", ".", "M", "P", "3">>
        /\ req[r1].pc = "create"
        /\ req[r2].filename = <<"w", "a", "v">> /\ Refused(r2)

\* C17: the model handle is assigned only by the startup hook and at most
\* once; once startup is over, no step of a health check or of a request
\* changes it.
C17_ModelHandleReadOnly ==
    [][/\ model' # model => (phase = "starting" /\ model = None)
       /\ phase # "starting" => model' = model
      ]_vars

C17_Witness ==
    /\ model = TinyModel
    /\ health = HealthBody
    /\ \E r1, r2 \in Reqs :
          /\ Done(r1) /\ req[r1].resp.status = 400
          /\ Done(r2) /\ req[r2].resp.status = 500

\* The positions at which a handler is executing on the event loop.
OnLoop == { "create", "write", "transcribe", "strip", "except", "finally" }

\* C18: at most one request is inside the Transcriber call, and more
\* generally at most one handler executes at a time, the one that owns the
\* loop; a handler gives the loop up only when it suspends in the upload read
\* or when it exits.
C18_TranscriberCallsSerialized ==
    /\ [](/\ Cardinality({ r \in Reqs : req[r].pc = "transcribe" }) <= 1
          /\ \A r \in Reqs : req[r].pc \in OnLoop <=> running = r)
    /\ [][\A r \in Reqs :
            (running = r /\ running' # r) =>
                (running' = 0 /\ req'[r].pc \in { "read", "done" })
         ]_vars

C18_Witness ==
    \E r1, r2 \in Reqs :
        /\ req[r1].pc = "transcribe" /\ running = r1
        /\ req[r2].pc = "read"

\* C19: every received request eventually completes; it then has its one
\* response, with status 200, 400 or 500, which never changes afterwards,
\* and a release of the artifact it acquired, if any, has been attempted.
C19_EveryRequestCompletes ==
    /\ \A r \in Reqs :
          (req[r].pc # "idle") ~>
              /\ Done(r)
              /\ ClientStatus(req[r].resp) \in {200, 400, 500}
              /\ req[r].created = 1 => req[r].unlinks = 1
    /\ [](\A r \in Reqs : req[r].resp # NoResp <=> Done(r))
    /\ [][\A r \in Reqs : Done(r) => req'[r] = req[r]]_vars

C19_Witness ==
    \A r \in Reqs :
        /\ Done(r)
        /\ req[r].created = 1 /\ req[r].unlinks = 1
        /\ req[r].resp.status \in {200, 500}

====
